---- MODULE Spec2Model ----
(***************************************************************************)
(* To-do client (HomeScreen list + AddEditScreen form) talking to the      *)
(* TodoStore REST backend.  The client is modelled from the screens'       *)
(* handlers; the backend, which is an external collaborator, from its      *)
(* documented contract.  Strings are sequences of one-character strings,   *)
(* an optional value (null or a value) is a sequence of length 0 or 1.     *)
(***************************************************************************)
EXTENDS Integers, Sequences, FiniteSets, TLC

\* ------------------------------------------------------------------ bounds
\* User gestures (typing, tapping, navigating) explored in one behaviour.
MaxUserActions == 2
\* User gestures explored when only the form and the navigation are exercised.
MaxFormActions == 3
\* User gestures explored when only the list screen is exercised.
MaxSearchActions == 2
\* Items the backend may lose (explicit removal outside this client).
MaxRemovals == 1

\* ------------------------------------------------------------ value helpers
None == <<>>
Some(v) == <<v>>

\* Texts the user can type in the search box / the title box / the description box.
QueryInputs == {<<>>, <<"a">>, <<" ", "B">>}
TitleInputs == {<<" ">>, <<"c">>, <<" ", "c", " ">>}
DescriptionInputs == {<<" ">>, <<"d">>}
DateInputs == {7}

\* String.prototype.trim: strips surrounding whitespace.
RECURSIVE TrimLeft(_)
TrimLeft(s) == IF s # <<>> /\ Head(s) = " " THEN TrimLeft(Tail(s)) ELSE s
RECURSIVE TrimRight(_)
TrimRight(s) ==
    IF s # <<>> /\ s[Len(s)] = " " THEN TrimRight(SubSeq(s, 1, Len(s) - 1)) ELSE s
Trim(s) == TrimRight(TrimLeft(s))

\* Date.prototype.toISOString and new Date(iso): a Date is its epoch value, the
\* ISO text is the tagged rendering of that value.
ToISOString(d) == <<"iso", d>>
NewDate(iso) == iso[2]

\* encodeURIComponent on the characters used here: a space is escaped.
EncodeChar(c) == IF c = " " THEN "%20" ELSE c
EncodeURIComponent(s) == [i \in 1..Len(s) |-> EncodeChar(s[i])]
DecodeChar(c) == IF c = "%20" THEN " " ELSE c
DecodeURIComponent(s) == [i \in 1..Len(s) |-> DecodeChar(s[i])]

\* ------------------------------------------------------------ alert messages
AlertFetchError == "Gorevler yuklenirken bir sorun olustu."
AlertToggleError == "Gorevin durumu guncellenemedi."
AlertDetailError == "Gorev detaylari yuklenirken hata olustu."
AlertEmptyTitle == "Gorev basligi bos birakilamaz."
AlertSaveError == "Kaydetme islemi sirasinda bir hata olustu."
AlertUpdated == "Gorev basariyla guncellendi."
AlertCreated == "Yeni gorev eklendi."
NoAlert == "none"

\* What a message tells the user.
Tells(msg) ==
    CASE msg = AlertEmptyTitle -> "fix_input"
      [] msg \in {AlertUpdated, AlertCreated} -> "success"
      [] msg \in {AlertFetchError, AlertToggleError, AlertDetailError, AlertSaveError}
            -> "generic_failure"
      [] OTHER -> "nothing"

\* HTTP outcome of a call: a status code, or 0 when fetch() itself rejects.
TransportError == 0
Ok(status) == status >= 200 /\ status <= 299

VARIABLES
    \* TodoStore (backend)
    store,        \* sequence of TodoItem records, in insertion order
    nextId,       \* next id the backend assigns
    \* network
    reqs,         \* requests sent, not yet handled by the backend
    resps,        \* responses (or transport failures) not yet seen by the client
    nReq,         \* number of requests issued so far; tags each request
    budget,       \* user gestures left
    \* HomeScreen
    isFocused, todos, loading, searchQuery,
    todosFrom,    \* tag of the list request whose result setTodos(data) last stored
    \* SearchBar
    query, timers,
    edited,       \* history: the search text was edited since the last timer expiry
    \* AddEditScreen (mounted iff ~isFocused)
    inst,         \* number of AddEditScreen instances mounted so far
    todoId, title, description, dueDate, isImportant, formLoading, isSaving,
    \* Alert.alert
    alert,
    lastSaved     \* history: the save request whose success last closed the form

vars == <<store, nextId, reqs, resps, nReq, budget, isFocused, todos, loading,
          searchQuery, todosFrom, query, timers, edited, inst, todoId, title, description,
          dueDate, isImportant, formLoading, isSaving, alert, lastSaved>>

storeVars == <<store, nextId>>
homeVars == <<isFocused, todos, loading, searchQuery, todosFrom>>
formVars == <<inst, todoId, title, description, dueDate, isImportant, formLoading, isSaving>>
formFields == <<title, description, dueDate, isImportant>>

\* ------------------------------------------------------------------ TodoStore
\* The backend contract: List / Get / Create / Update over TodoItem records.
Item(id, t, d, due, imp, done) ==
    [id |-> id, title |-> t, description |-> d, dueDate |-> due,
     isImportant |-> imp, isCompleted |-> done, createdAt |-> 100 + id]

\* Item 1 has no description (null), item 2 an empty-string description.
InitialStore ==
    << Item(1, <<"a">>, None, None, FALSE, FALSE),
       Item(2, <<"A", " ", "b">>, Some(<<>>), Some(ToISOString(7)), TRUE, TRUE) >>

LowerChar(c) == CASE c = "A" -> "a" [] c = "B" -> "b" [] c = "C" -> "c" [] OTHER -> c
LowerStr(s) == [i \in 1..Len(s) |-> LowerChar(s[i])]
Contains(s, sub) ==
    \E i \in 0..(Len(s) - Len(sub)) : SubSeq(s, i + 1, i + Len(sub)) = sub

Ids(st) == {st[i].id : i \in 1..Len(st)}
IndexOf(st, id) == CHOOSE i \in 1..Len(st) : st[i].id = id

\* List(filter?): case-insensitive substring match on title.
StoreList(st, filter) ==
    LET Keep(t) == filter = None \/ Contains(LowerStr(t.title), LowerStr(filter[1]))
    IN  SelectSeq(st, Keep)

\* Update(id, partial): only the supplied fields change.
ApplyPartial(item, partial) ==
    [f \in DOMAIN item |->
        IF f \in DOMAIN partial
        THEN (IF f = "title" THEN Trim(partial[f]) ELSE partial[f])
        ELSE item[f]]

StoreUpdate(st, id, partial) ==
    [st EXCEPT ![IndexOf(st, id)] = ApplyPartial(st[IndexOf(st, id)], partial)]

StoreCreate(st, id, payload) ==
    Append(st, Item(id, Trim(payload.title), payload.description, payload.dueDate,
                    payload.isImportant, FALSE))

StoreRemove(st, id) == SelectSeq(st, LAMBDA t : t.id # id)

TitleRejected(payload) == "title" \in DOMAIN payload /\ Trim(payload.title) = <<>>

\* Status the backend answers a request with.
StatusOf(st, r) ==
    CASE r.method = "GET" /\ r.id = None -> 200
      [] r.method = "GET" /\ r.id # None -> IF r.id[1] \in Ids(st) THEN 200 ELSE 404
      [] r.method = "POST" -> IF TitleRejected(r.body[1]) THEN 400 ELSE 201
      [] r.method = "PUT" ->
            IF r.id[1] \notin Ids(st) THEN 404
            ELSE IF TitleRejected(r.body[1]) THEN 400 ELSE 200

\* Store after the backend handled a request.
StoreAfter(st, nid, r) ==
    CASE r.method = "POST" /\ StatusOf(st, r) = 201 -> StoreCreate(st, nid, r.body[1])
      [] r.method = "PUT" /\ StatusOf(st, r) = 200 -> StoreUpdate(st, r.id[1], r.body[1])
      [] OTHER -> st

\* JSON body of the answer, as a sequence of items.
DataOf(st, nid, r) ==
    CASE r.method = "GET" /\ r.id = None ->
            StoreList(st, IF r.search = None THEN None
                          ELSE Some(DecodeURIComponent(r.search[1])))
      [] r.method = "GET" /\ r.id # None /\ StatusOf(st, r) = 200 ->
            << st[IndexOf(st, r.id[1])] >>
      [] OTHER -> <<>>

\* --------------------------------------------------------------- requests
\* seq orders the requests by issue time; cause records what made the client issue
\* it; inst is the AddEditScreen instance whose closure awaits the answer (0: HomeScreen).
Request(n, site, cause, method, id, search, body, i) ==
    [seq |-> n, site |-> site, cause |-> cause, method |-> method, id |-> id,
     search |-> search, body |-> body, inst |-> i]

Response(r, status, data) == [req |-> r, status |-> status, data |-> data]

Pending(site) == {r \in reqs : r.site = site} \cup {p.req : p \in {x \in resps : x.req.site = site}}

\* The backend handles a request; the answer may still be lost on the way back.
BackendHandles(r, delivered) ==
    /\ UNCHANGED lastSaved
    /\ store' = StoreAfter(store, nextId, r)
    /\ nextId' = IF r.method = "POST" /\ StatusOf(store, r) = 201 THEN nextId + 1 ELSE nextId
    /\ reqs' = reqs \ {r}
    /\ resps' = resps \cup
          {IF delivered THEN Response(r, StatusOf(store, r), DataOf(store, nextId, r))
                        ELSE Response(r, TransportError, <<>>)}
    /\ UNCHANGED <<nReq, budget, homeVars, query, timers, edited, formVars, alert>>

\* The request never reaches the backend.
RequestLost(r) ==
    /\ UNCHANGED lastSaved
    /\ reqs' = reqs \ {r}
    /\ resps' = resps \cup {Response(r, TransportError, <<>>)}
    /\ UNCHANGED <<storeVars, nReq, budget, homeVars, query, timers, edited, formVars, alert>>

\* An item disappears from the backend (explicit removal, not done by this client).
BackendRemoves(id) ==
    /\ UNCHANGED lastSaved
    /\ (nextId - 1) - Len(store) < MaxRemovals
    /\ id \in Ids(store)
    /\ store' = StoreRemove(store, id)
    /\ UNCHANGED <<nextId, reqs, resps, nReq, budget, homeVars, query, timers, edited, formVars, alert>>

\* ---------------------------------------------------------------- Alert.alert
\* The message shown, with the outcome of the call that raised it (NoStatus when
\* no call was involved).
NoStatus == TransportError - 1
Alert(site, msg, status) == [site |-> site, msg |-> msg, status |-> status]

\* ----------------------------------------------------------------- HomeScreen
\* fetchTodos builds the URL: no search parameter for an empty query.
FetchTodosRequest(n, q, cause) ==
    Request(n, "list", cause, "GET", None,
            IF q = <<>> THEN None ELSE Some(EncodeURIComponent(q)), None, 0)

\* useEffect(() => { if (isFocused) fetchTodos(searchQuery) }, [isFocused, searchQuery, fetchTodos])
\* f0, q0: isFocused and searchQuery of the previous render; f1, q1: of this one.
UseEffectFetchIgnoresFocusChange(f0, q0, f1, q1) == q0 # q1 /\ f1
UseEffectFetch(f0, q0, f1, q1) == (f0 # f1 \/ q0 # q1) /\ f1

\* The list fetches a render with (f1, q1) issues, tagged from n + 1.
EffectReqs(n, f1, q1) ==
    IF UseEffectFetch(isFocused, searchQuery, f1, q1)
    THEN {FetchTodosRequest(n + 1, q1, IF q1 # searchQuery THEN "search" ELSE "focus")}
    ELSE {}

\* SearchBar's effect on [query, onSearch]: the cleanup clears the running timer,
\* then a new timer capturing the current text is started.  handleSearch is a new
\* function on every HomeScreen render, so every such render restarts the timer.
SearchBarEffectKeepsOldTimer(ts, q) == ts \cup {q}
SearchBarEffect(ts, q) == {q}

\* handleToggleCompletion's request body and its update of the list on success.
ToggleBodySendsWholeItem(item) == [item EXCEPT !.isCompleted = ~item.isCompleted]
ToggleBody(item) == [isCompleted |-> ~item.isCompleted]
ToggleApplied(list, id, newStatus) ==
    [i \in 1..Len(list) |->
        IF list[i].id = id THEN [list[i] EXCEPT !.isCompleted = newStatus] ELSE list[i]]

\* The user edits the search text (SearchBar.setQuery).
TypeSearch(q) ==
    /\ UNCHANGED lastSaved
    /\ isFocused /\ budget > 0 /\ q # query
    /\ query' = q
    /\ timers' = SearchBarEffect(timers, q)
    /\ edited' = TRUE
    /\ budget' = budget - 1
    /\ UNCHANGED <<storeVars, reqs, resps, nReq, homeVars, formVars, alert>>

\* A debounce timer expires: onSearch(text) -> handleSearch -> setSearchQuery.
TimerFires(t) ==
    /\ UNCHANGED lastSaved
    /\ t \in timers
    /\ searchQuery' = t
    /\ edited' = FALSE
    /\ timers' = IF t # searchQuery THEN SearchBarEffect(timers \ {t}, query)
                                   ELSE timers \ {t}
    /\ reqs' = reqs \cup EffectReqs(nReq, isFocused, t)
    /\ nReq' = nReq + Cardinality(EffectReqs(nReq, isFocused, t))
    /\ loading' = (loading \/ EffectReqs(nReq, isFocused, t) # {})
    /\ UNCHANGED <<storeVars, resps, budget, isFocused, todos, todosFrom, query,
                   formVars, alert>>

\* fetchTodos after the await: setTodos(data) or the catch, then finally.
ListResponseArrives(p) ==
    /\ UNCHANGED lastSaved
    /\ p \in resps /\ p.req.site = "list"
    /\ resps' = resps \ {p}
    /\ IF Ok(p.status)
       THEN /\ todos' = p.data
            /\ todosFrom' = p.req.seq
            /\ timers' = SearchBarEffect(timers, query)
            /\ UNCHANGED alert
       ELSE /\ alert' = Alert("list", AlertFetchError, p.status)
            /\ timers' = IF loading THEN SearchBarEffect(timers, query) ELSE timers
            /\ UNCHANGED <<todos, todosFrom>>
    /\ loading' = FALSE
    /\ UNCHANGED <<storeVars, reqs, nReq, budget, isFocused, searchQuery, query, edited, formVars>>

\* The user taps the checkbox of the i-th row: handleToggleCompletion up to the await.
ToggleCompletion(i) ==
    /\ UNCHANGED lastSaved
    /\ isFocused /\ budget > 0 /\ i \in 1..Len(todos)
    /\ reqs' = reqs \cup {Request(nReq + 1, "toggle", "tap", "PUT", Some(todos[i].id), None,
                                  Some(ToggleBody(todos[i])), 0)}
    /\ nReq' = nReq + 1
    /\ budget' = budget - 1
    /\ UNCHANGED <<storeVars, resps, homeVars, query, timers, edited, formVars, alert>>

\* handleToggleCompletion after the await.
ToggleResponseArrives(p) ==
    /\ UNCHANGED lastSaved
    /\ p \in resps /\ p.req.site = "toggle"
    /\ resps' = resps \ {p}
    /\ IF Ok(p.status)
       THEN /\ todos' = ToggleApplied(todos, p.req.id[1], p.req.body[1].isCompleted)
            /\ timers' = SearchBarEffect(timers, query)
            /\ UNCHANGED alert
       ELSE /\ alert' = Alert("toggle", AlertToggleError, p.status)
            /\ UNCHANGED <<todos, timers>>
    /\ UNCHANGED <<storeVars, reqs, nReq, budget, isFocused, loading, searchQuery,
                   todosFrom, query, edited, formVars>>

\* -------------------------------------------------------------- AddEditScreen
\* handleSave's guard `!title.trim()`.
TitleIsBlankWithoutTrim(t) == t = <<>>
TitleIsBlank(t) == Trim(t) = <<>>

\* handleSave's `finally { setIsSaving(false) }`, a no-op once the screen is unmounted.
IsSavingAfterSaveWithoutFinally(current, saving) == saving
IsSavingAfterSave(current, saving) == IF current THEN FALSE ELSE saving

\* handleSave's payload.
SavePayload(t, d, due, imp) ==
    [title |-> Trim(t),
     description |-> IF Trim(d) = <<>> THEN None ELSE Some(Trim(d)),
     dueDate |-> IF due # None THEN Some(ToISOString(due[1])) ELSE None,
     isImportant |-> imp]

\* State of a freshly constructed AddEditScreen (also kept while none is mounted).
FormReset ==
    /\ todoId' = None /\ title' = <<>> /\ description' = <<>> /\ dueDate' = None
    /\ isImportant' = FALSE /\ formLoading' = TRUE /\ isSaving' = FALSE

\* The AddEditScreen instance that issued request r is still the mounted one.
Current(r) == ~isFocused /\ r.inst = inst

\* navigation.goBack() from the mounted AddEditScreen: it unmounts, HomeScreen
\* regains focus, re-renders and runs its effect.
BackToHome ==
    /\ isFocused' = TRUE
    /\ FormReset
    /\ reqs' = reqs \cup EffectReqs(nReq, TRUE, searchQuery)
    /\ nReq' = nReq + Cardinality(EffectReqs(nReq, TRUE, searchQuery))
    /\ loading' = (loading \/ EffectReqs(nReq, TRUE, searchQuery) # {})
    /\ timers' = SearchBarEffect(timers, query)
    /\ UNCHANGED <<inst, todos, searchQuery, todosFrom, query, edited>>

\* The user taps a row: handleNavigateToEdit, then AddEditScreen mounts and its
\* effect calls fetchTodoDetails(todoId).
NavigateToEdit(i) ==
    /\ UNCHANGED lastSaved
    /\ isFocused /\ budget > 0 /\ i \in 1..Len(todos)
    /\ isFocused' = FALSE
    /\ inst' = inst + 1
    /\ todoId' = Some(todos[i].id)
    /\ title' = <<>> /\ description' = <<>> /\ dueDate' = None /\ isImportant' = FALSE
    /\ formLoading' = TRUE /\ isSaving' = FALSE
    /\ reqs' = reqs \cup {Request(nReq + 1, "detail", "mount", "GET", Some(todos[i].id), None,
                                  None, inst + 1)}
                    \cup EffectReqs(nReq + 1, FALSE, searchQuery)
    /\ nReq' = nReq + 1 + Cardinality(EffectReqs(nReq + 1, FALSE, searchQuery))
    /\ loading' = (loading \/ EffectReqs(nReq + 1, FALSE, searchQuery) # {})
    /\ timers' = SearchBarEffect(timers, query)
    /\ budget' = budget - 1
    /\ UNCHANGED <<storeVars, resps, todos, searchQuery, todosFrom, query, edited, alert>>

\* The user taps the FAB: handleNavigateToAdd, then AddEditScreen mounts in add mode.
NavigateToAdd ==
    /\ UNCHANGED lastSaved
    /\ isFocused /\ budget > 0
    /\ isFocused' = FALSE
    /\ inst' = inst + 1
    /\ todoId' = None
    /\ title' = <<>> /\ description' = <<>> /\ dueDate' = None /\ isImportant' = FALSE
    /\ formLoading' = FALSE /\ isSaving' = FALSE
    /\ reqs' = reqs \cup EffectReqs(nReq, FALSE, searchQuery)
    /\ nReq' = nReq + Cardinality(EffectReqs(nReq, FALSE, searchQuery))
    /\ loading' = (loading \/ EffectReqs(nReq, FALSE, searchQuery) # {})
    /\ timers' = SearchBarEffect(timers, query)
    /\ budget' = budget - 1
    /\ UNCHANGED <<storeVars, resps, todos, searchQuery, todosFrom, query, edited, alert>>

\* The user leaves the AddEditScreen with the back button.
GoBack ==
    /\ UNCHANGED lastSaved
    /\ ~isFocused /\ budget > 0
    /\ BackToHome
    /\ budget' = budget - 1
    /\ UNCHANGED <<storeVars, resps, alert>>

\* fetchTodoDetails after the await.
DetailResponseArrives(p) ==
    /\ UNCHANGED lastSaved
    /\ p \in resps /\ p.req.site = "detail"
    /\ resps' = resps \ {p}
    /\ IF Ok(p.status)
       THEN /\ IF Current(p.req)
               THEN /\ title' = p.data[1].title
                    /\ description' = IF p.data[1].description = None THEN <<>>
                                      ELSE p.data[1].description[1]
                    /\ isImportant' = p.data[1].isImportant
                    /\ dueDate' = IF p.data[1].dueDate = None THEN None
                                  ELSE Some(NewDate(p.data[1].dueDate[1]))
                    /\ formLoading' = FALSE
                    /\ UNCHANGED <<inst, todoId, isSaving>>
               ELSE UNCHANGED formVars
            /\ UNCHANGED <<reqs, nReq, homeVars, query, timers, edited, alert>>
       ELSE /\ alert' = Alert("detail", AlertDetailError, p.status)
            /\ IF Current(p.req)
               THEN BackToHome
               ELSE UNCHANGED <<reqs, nReq, homeVars, query, timers, edited, formVars>>
    /\ UNCHANGED <<storeVars, budget>>

\* The user edits the form.
SetTitle(t) ==
    /\ UNCHANGED lastSaved
    /\ ~isFocused /\ ~formLoading /\ budget > 0 /\ t # title
    /\ title' = t
    /\ budget' = budget - 1
    /\ UNCHANGED <<storeVars, reqs, resps, nReq, homeVars, query, timers, edited, inst, todoId,
                   description, dueDate, isImportant, formLoading, isSaving, alert>>

SetDescription(d) ==
    /\ UNCHANGED lastSaved
    /\ ~isFocused /\ ~formLoading /\ budget > 0 /\ d # description
    /\ description' = d
    /\ budget' = budget - 1
    /\ UNCHANGED <<storeVars, reqs, resps, nReq, homeVars, query, timers, edited, inst, todoId,
                   title, dueDate, isImportant, formLoading, isSaving, alert>>

SetDueDate(d) ==
    /\ UNCHANGED lastSaved
    /\ ~isFocused /\ ~formLoading /\ budget > 0 /\ Some(d) # dueDate
    /\ dueDate' = Some(d)
    /\ budget' = budget - 1
    /\ UNCHANGED <<storeVars, reqs, resps, nReq, homeVars, query, timers, edited, inst, todoId,
                   title, description, isImportant, formLoading, isSaving, alert>>

SetIsImportant ==
    /\ UNCHANGED lastSaved
    /\ ~isFocused /\ ~formLoading /\ budget > 0
    /\ isImportant' = ~isImportant
    /\ budget' = budget - 1
    /\ UNCHANGED <<storeVars, reqs, resps, nReq, homeVars, query, timers, edited, inst, todoId,
                   title, description, dueDate, formLoading, isSaving, alert>>

\* The user presses the save button (disabled while isSaving): handleSave up to the await.
HandleSave ==
    /\ UNCHANGED lastSaved
    /\ ~isFocused /\ ~formLoading /\ ~isSaving /\ budget > 0
    /\ budget' = budget - 1
    /\ IF TitleIsBlank(title)
       THEN /\ alert' = Alert("save", AlertEmptyTitle, NoStatus)
            /\ UNCHANGED <<reqs, nReq, isSaving>>
       ELSE /\ isSaving' = TRUE
            /\ reqs' = reqs \cup
                  {Request(nReq + 1, "save", "press", IF todoId # None THEN "PUT" ELSE "POST",
                           todoId, None,
                           Some(SavePayload(title, description, dueDate, isImportant)),
                           inst)}
            /\ nReq' = nReq + 1
            /\ UNCHANGED alert
    /\ UNCHANGED <<storeVars, resps, homeVars, query, timers, edited, inst, todoId, formFields,
                   formLoading>>

\* handleSave after the await.
SaveResponseArrives(p) ==
    /\ p \in resps /\ p.req.site = "save"
    /\ resps' = resps \ {p}
    /\ IF Ok(p.status)
       THEN /\ alert' = Alert("save", IF p.req.method = "PUT" THEN AlertUpdated ELSE AlertCreated,
                              p.status)
            /\ IF Current(p.req)
               THEN BackToHome /\ lastSaved' = Some(p.req)
               ELSE UNCHANGED <<reqs, nReq, homeVars, query, timers, edited, formVars,
                                lastSaved>>
       ELSE /\ alert' = Alert("save", AlertSaveError, p.status)
            /\ isSaving' = IsSavingAfterSave(Current(p.req), isSaving)
            /\ UNCHANGED <<reqs, nReq, homeVars, query, timers, edited, inst, todoId, formFields,
                           formLoading, lastSaved>>
    /\ UNCHANGED <<storeVars, budget>>

\* ------------------------------------------------------------- specification
\* The app right after launch: HomeScreen is mounted and focused, its effect has
\* called fetchTodos(''), SearchBar's first timer runs; b user gestures are explored.
InitWith(b) ==
    /\ store = InitialStore
    /\ nextId = Len(InitialStore) + 1
    /\ reqs = {FetchTodosRequest(1, <<>>, "focus")}
    /\ resps = {}
    /\ nReq = 1
    /\ budget = b
    /\ isFocused = TRUE
    /\ todos = <<>>
    /\ loading = TRUE
    /\ searchQuery = <<>>
    /\ todosFrom = 0
    /\ query = <<>>
    /\ timers = {<<>>}
    /\ edited = FALSE
    /\ inst = 0
    /\ todoId = None /\ title = <<>> /\ description = <<>> /\ dueDate = None
    /\ isImportant = FALSE /\ formLoading = TRUE /\ isSaving = FALSE
    /\ alert = Alert("none", NoAlert, NoStatus)
    /\ lastSaved = None

Init == InitWith(MaxUserActions)

Next ==
    \/ \E r \in reqs : \E delivered \in BOOLEAN : BackendHandles(r, delivered)
    \/ \E r \in reqs : RequestLost(r)
    \/ \E id \in Ids(store) : BackendRemoves(id)
    \/ \E q \in QueryInputs : TypeSearch(q)
    \/ \E t \in timers : TimerFires(t)
    \/ \E p \in resps : ListResponseArrives(p)
    \/ \E i \in 1..Len(todos) : ToggleCompletion(i)
    \/ \E p \in resps : ToggleResponseArrives(p)
    \/ \E i \in 1..Len(todos) : NavigateToEdit(i)
    \/ NavigateToAdd
    \/ GoBack
    \/ \E p \in resps : DetailResponseArrives(p)
    \/ \E t \in TitleInputs : SetTitle(t)
    \/ \E d \in DescriptionInputs : SetDescription(d)
    \/ \E d \in DateInputs : SetDueDate(d)
    \/ SetIsImportant
    \/ HandleSave
    \/ \E p \in resps : SaveResponseArrives(p)

Spec == Init /\ [][Next]_vars

\* The form and the navigation alone: no typing in the search box, no checkbox taps.
InitForm == InitWith(MaxFormActions)

NextForm ==
    \/ \E r \in reqs : \E delivered \in BOOLEAN : BackendHandles(r, delivered)
    \/ \E r \in reqs : RequestLost(r)
    \/ \E t \in timers : TimerFires(t)
    \/ \E p \in resps : ListResponseArrives(p)
    \/ \E i \in 1..Len(todos) : NavigateToEdit(i)
    \/ NavigateToAdd
    \/ GoBack
    \/ \E p \in resps : DetailResponseArrives(p)
    \/ \E t \in TitleInputs : SetTitle(t)
    \/ \E d \in DescriptionInputs : SetDescription(d)
    \/ \E d \in DateInputs : SetDueDate(d)
    \/ SetIsImportant
    \/ HandleSave
    \/ \E p \in resps : SaveResponseArrives(p)

SpecForm == InitForm /\ [][NextForm]_vars

\* ------------------------------------------------------------------ properties
\* What one step did, read off the network.
Issued(site) == {r \in reqs' \ reqs : r.site = site}
Seen(site) == {p \in resps \ resps' : p.req.site = site}
Answered(site) == {p \in resps' \ resps : p.req.site = site}
\* The search text a list request carries, as the backend reads it.
SearchText(r) == IF r.search = None THEN <<>> ELSE DecodeURIComponent(r.search[1])
LocalEntries(list, id) == {i \in 1..Len(list) : list[i].id = id}

\* C1: the result of an earlier-issued list request never overwrites in todos the
\* result of a later-issued one (stale responses are discarded).
C1_StaleResponseDiscarded == [][todosFrom' >= todosFrom]_vars

\* C2: a checkbox tap flips the item's isCompleted in todos at once, before the PUT
\* is answered, and a failed PUT puts the value from before the tap back.
C2_OptimisticToggle ==
    [][ /\ \A r \in Issued("toggle") : \A i \in LocalEntries(todos, r.id[1]) :
              todos'[i].isCompleted = ~todos[i].isCompleted
        /\ \A p \in Seen("toggle") : ~Ok(p.status) =>
              \A i \in LocalEntries(todos', p.req.id[1]) :
                 todos'[i].isCompleted = ~p.req.body[1].isCompleted ]_vars

\* C3: toggles of one item are serialized, last write wins: a toggle PUT issued while
\* an earlier toggle PUT of the same item is unanswered carries the negation of the
\* value that earlier toggle set.
C3_TogglesSerialized ==
    [][ \A r \in Issued("toggle") : \A o \in Pending("toggle") :
            ( /\ o.id = r.id
              /\ \A o2 \in Pending("toggle") : o2.id = r.id => o2.seq <= o.seq )
            => r.body[1].isCompleted = ~o.body[1].isCompleted ]_vars

\* C4: at most one save request, at most one toggle PUT and at most one
\* search-driven list fetch are outstanding at any time.
C4_OneInFlightPerSite ==
    /\ Cardinality(Pending("save")) <= 1
    /\ Cardinality(Pending("toggle")) <= 1
    /\ Cardinality({r \in Pending("list") : r.cause = "search"}) <= 1

\* C5: regaining focus issues one list fetch carrying the current searchQuery; a
\* change of searchQuery while focused issues one carrying the new searchQuery; no
\* list fetch is issued while the screen is not focused.
C5_RefreshTriggers ==
    [][ /\ (~isFocused /\ isFocused') =>
              /\ Cardinality(Issued("list")) = 1
              /\ \A r \in Issued("list") : SearchText(r) = searchQuery'
        /\ (isFocused' /\ searchQuery' # searchQuery) =>
              /\ Cardinality(Issued("list")) = 1
              /\ \A r \in Issued("list") : SearchText(r) = searchQuery'
        /\ ~isFocused' => Issued("list") = {} ]_vars

\* C5 witness: after a search changed searchQuery the screen lost and regained
\* focus, and the fetch issued on regaining it, carrying that searchQuery, is on its way.
C5_Witness ==
    /\ isFocused /\ inst > 0 /\ searchQuery # <<>>
    /\ \E r \in reqs : r.site = "list" /\ r.cause = "focus" /\ SearchText(r) = searchQuery
                       /\ r.seq > 1

\* The list screen alone: typing, taps on checkboxes, leaving for the add form and
\* coming back.  A timer that was started does expire: the quiet period passes.
InitSearch == InitWith(MaxSearchActions)

TimerExpires == \E t \in timers : TimerFires(t)

NextSearch ==
    \/ \E r \in reqs : \E delivered \in BOOLEAN : BackendHandles(r, delivered)
    \/ \E r \in reqs : RequestLost(r)
    \/ \E q \in QueryInputs : TypeSearch(q)
    \/ TimerExpires
    \/ \E p \in resps : ListResponseArrives(p)
    \/ \E i \in 1..Len(todos) : ToggleCompletion(i)
    \/ \E p \in resps : ToggleResponseArrives(p)
    \/ NavigateToAdd
    \/ GoBack

SpecSearch == InitSearch /\ [][NextSearch]_vars /\ WF_vars(TimerExpires)

\* C6 as stated: at the expiry that ends a burst of edits, on the focused list
\* screen, exactly one list fetch is issued and it carries the final text.
C6_FetchAfterEveryBurst ==
    [][ (edited /\ ~edited' /\ isFocused) =>
            /\ Cardinality(Issued("list")) = 1
            /\ \A r \in Issued("list") : SearchText(r) = query ]_vars

\* C6 amended: at most one timer runs and it holds the current text; an edit issues
\* no fetch and a search-driven fetch never carries an intermediate text; the expiry
\* that ends a burst issues, on the focused screen, exactly one fetch carrying the
\* final text when that text differs from the active searchQuery and none when it
\* equals it; and after an edit that expiry does come.
C6_Debounce ==
    /\ [](timers \subseteq {query})
    /\ [][ /\ \A r \in Issued("list") : r.cause = "search" => SearchText(r) = query
           /\ query' # query => Issued("list") = {}
           /\ (edited /\ ~edited' /\ isFocused /\ query # searchQuery) =>
                 /\ Cardinality(Issued("list")) = 1
                 /\ \A r \in Issued("list") : SearchText(r) = query /\ r.cause = "search"
           /\ (edited /\ ~edited' /\ query = searchQuery) => Issued("list") = {} ]_vars
    /\ (edited ~> ~edited)

\* C6 witness: two edits in one burst, then the single fetch for the final text.
C6_Witness ==
    /\ budget = MaxSearchActions - 2 /\ isFocused /\ inst = 0 /\ ~edited
    /\ nReq = 2
    /\ \E r \in reqs : r.site = "list" /\ r.cause = "search" /\ SearchText(r) = query

\* C7: when a list fetch, a toggle PUT or a save request fails, the failure is
\* reported with the alert of that call, the handling leaves todos (list fetch,
\* toggle) or the form fields (save) as they were, and loading / isSaving is false.
C7_FailureLeavesPriorState ==
    [][ /\ \A p \in Seen("list") : ~Ok(p.status) =>
              /\ alert' = Alert("list", AlertFetchError, p.status)
              /\ todos' = todos /\ todosFrom' = todosFrom
              /\ ~loading'
        /\ \A p \in Seen("toggle") : ~Ok(p.status) =>
              /\ alert' = Alert("toggle", AlertToggleError, p.status)
              /\ todos' = todos
        /\ \A p \in Seen("save") : ~Ok(p.status) =>
              /\ alert' = Alert("save", AlertSaveError, p.status)
              /\ UNCHANGED <<formFields, todoId, isFocused>>
              /\ Current(p.req) => ~isSaving' ]_vars

\* C7 witness: a save of an edited item failed and the form is still there, idle.
C7_Witness ==
    /\ ~isFocused /\ todoId # None /\ title # <<>> /\ ~isSaving
    /\ alert.site = "save" /\ alert.msg = AlertSaveError /\ ~Ok(alert.status)

\* A text that is nothing but whitespace, and t being s without its surrounding
\* whitespace, both said without Trim.
IsBlank(s) == \A i \in 1..Len(s) : s[i] = " "
IsTrimmedFormOf(t, s) ==
    /\ t # <<>> /\ t[1] # " " /\ t[Len(t)] # " "
    /\ \E i \in 0..Len(s) :
          /\ i + Len(t) <= Len(s)
          /\ SubSeq(s, i + 1, i + Len(t)) = t
          /\ \A k \in 1..Len(s) : (k <= i \/ k > i + Len(t)) => s[k] = " "
\* A press of the save button: the only gesture on the form that leaves its fields.
SavePressed ==
    ~isFocused /\ ~isFocused' /\ budget' < budget /\ UNCHANGED formFields

\* C8: pressing save with a title that trims to empty raises the warning, issues no
\* request, leaves isSaving false and the store unchanged; every title sent in a save
\* payload is the trimmed, non-empty form of the entered title; no stored title is blank.
C8_EmptyTitleNeverSent ==
    /\ [](\A i \in 1..Len(store) : ~IsBlank(store[i].title))
    /\ [](\A r \in Pending("save") : ~IsBlank(r.body[1].title))
    /\ [][ /\ \A r \in Issued("save") : IsTrimmedFormOf(r.body[1].title, title)
           /\ (SavePressed /\ IsBlank(title)) =>
                 /\ Issued("save") = {}
                 /\ alert' = Alert("save", AlertEmptyTitle, NoStatus)
                 /\ ~isSaving'
                 /\ store' = store ]_vars

\* C8 witness: save was pressed on a title of spaces only and was turned down.
C8_Witness ==
    /\ ~isFocused /\ title = <<" ">> /\ ~isSaving /\ Pending("save") = {}
    /\ alert = Alert("save", AlertEmptyTitle, NoStatus)

\* C9: a save or toggle answered with 400 tells the user to fix the input, one
\* answered with 404 tells the user the item no longer exists.
C9_DistinctMessages ==
    alert.site \in {"save", "toggle"} =>
        /\ alert.status = 400 => Tells(alert.msg) = "fix_input"
        /\ alert.status = 404 => Tells(alert.msg) = "item_gone"

\* C10 as stated: a toggle PUT carries isCompleted alone; when the backend applies it the
\* stored item has isCompleted negated and nothing else in the store changes; when
\* the client sees it succeed the local entry has isCompleted negated and nothing
\* else in todos changes.
C10_ToggleNegatesIsCompleted ==
    [][ /\ \A r \in Issued("toggle") : DOMAIN r.body[1] = {"isCompleted"}
        /\ \A p \in Answered("toggle") : Ok(p.status) =>
              \E i \in 1..Len(store) :
                 /\ store[i].id = p.req.id[1]
                 /\ store' = [store EXCEPT ![i].isCompleted = ~store[i].isCompleted]
        /\ \A p \in Seen("toggle") : Ok(p.status) =>
              todos' = [i \in 1..Len(todos) |->
                          IF todos[i].id = p.req.id[1]
                          THEN [todos[i] EXCEPT !.isCompleted = ~todos[i].isCompleted]
                          ELSE todos[i]] ]_vars

\* C10 amended: a toggle PUT carries isCompleted alone, set to the negation of the
\* tapped entry's value; when the backend applies it the stored item takes that value
\* and nothing else in the store changes; when the client sees it succeed the local
\* entry takes that value and nothing else in todos changes.
C10_ToggleSetsIsCompletedAlone ==
    [][ /\ \A r \in Issued("toggle") :
              /\ DOMAIN r.body[1] = {"isCompleted"}
              /\ \E i \in LocalEntries(todos, r.id[1]) :
                    r.body[1].isCompleted = ~todos[i].isCompleted
        /\ \A p \in Answered("toggle") : Ok(p.status) =>
              \E i \in 1..Len(store) :
                 /\ store[i].id = p.req.id[1]
                 /\ store' = [store EXCEPT ![i].isCompleted = p.req.body[1].isCompleted]
        /\ \A p \in Seen("toggle") : Ok(p.status) =>
              todos' = [i \in 1..Len(todos) |->
                          IF todos[i].id = p.req.id[1]
                          THEN [todos[i] EXCEPT !.isCompleted = p.req.body[1].isCompleted]
                          ELSE todos[i]] ]_vars

\* C10 witness: item 1 was toggled, the backend and the list both show it completed
\* and item 2 is as it was.
C10_Witness ==
    /\ Pending("toggle") = {}
    /\ Len(store) = 2 /\ store[1] = [InitialStore[1] EXCEPT !.isCompleted = TRUE]
    /\ store[2] = InitialStore[2]
    /\ todos = store

\* The list holds an entry carrying the field values of save request r (and, for an
\* update, the id it was sent to).
HoldsSaved(list, r) ==
    \E j \in 1..Len(list) :
       /\ r.id # None => list[j].id = r.id[1]
       /\ list[j].title = r.body[1].title
       /\ list[j].description = r.body[1].description
       /\ list[j].dueDate = r.body[1].dueDate
       /\ list[j].isImportant = r.body[1].isImportant

\* The app is back on the list after a save it saw succeed, nothing has failed since,
\* and no request is in flight.
SettledAfterSave ==
    /\ lastSaved # None /\ isFocused
    /\ reqs = {} /\ resps = {}
    /\ alert.site = "save" /\ Tells(alert.msg) = "success"

\* C11: once a save succeeded, the app is back on the list and no request is in flight,
\* todos holds the created or updated item with its saved field values whenever its
\* title matches the active search filter.
C11_ReadYourWrites ==
    (SettledAfterSave /\ Contains(LowerStr(lastSaved[1].body[1].title), LowerStr(searchQuery)))
        => HoldsSaved(todos, lastSaved[1])

\* The form fields as fetchTodoDetails fills them from a stored item.
Shown(item) ==
    << item.title,
       IF item.description = None THEN <<>> ELSE item.description[1],
       IF item.dueDate = None THEN None ELSE Some(NewDate(item.dueDate[1])),
       item.isImportant >>

\* C12: pressing save in the edit screen while the form shows a stored item as
\* fetchTodoDetails loaded it (no field edited) sends an update that leaves every
\* field of that stored item unchanged, a null description staying null and an
\* empty-string description staying an empty string.
C12_SaveUnchangedIsIdentity ==
    [][ \A r \in Issued("save") :
           (r.method = "PUT" /\ r.id[1] \in Ids(store)
              /\ formFields = Shown(store[IndexOf(store, r.id[1])]))
           => ApplyPartial(store[IndexOf(store, r.id[1])], r.body[1])
                 = store[IndexOf(store, r.id[1])] ]_vars

\* No call has failed so far (every failure raises an alert), so every list fetch
\* answered up to now succeeded, and a list has been received.
NothingFailed == alert = Alert("none", NoAlert, NoStatus) /\ todosFrom > 0

\* C13: whenever the list screen is focused, no list fetch and no toggle PUT is in
\* flight and the last list fetch succeeded, each entry of todos has the isCompleted
\* value of the stored item with its id.
C13_QuiescentConsistency ==
    (isFocused /\ Pending("list") = {} /\ Pending("toggle") = {} /\ NothingFailed)
        => \A j \in 1..Len(todos) : \A i \in 1..Len(store) :
              store[i].id = todos[j].id => store[i].isCompleted = todos[j].isCompleted

====
